---- MODULE Spec2Model ----
(***************************************************************************)
(* State-machine model of the Tokenizer Explorer front end                 *)
(* (frontend/src/App.jsx): the React component's state, its effects, the   *)
(* debounced request pipeline and the hover/click selection handlers.      *)
(*                                                                         *)
(* One action is one event delivered to the component (a DOM event, the    *)
(* debounce timer, a network completion) together with the render and the  *)
(* effects React runs for it, so every state of the model is a committed   *)
(* state of the component.                                                 *)
(*                                                                         *)
(* Strings are sequences of one-character strings, so "a," is              *)
(* <<"a", ",">> and the empty string is <<>>.                              *)
(***************************************************************************)
EXTENDS Integers, Sequences, FiniteSets, TLC

VARIABLES
    text,               \* useState: raw input (App.jsx:6)
    modelId,            \* useState (App.jsx:7)
    status,             \* useState: null or {status, message} (App.jsx:8)
    tokens,             \* useState: token list (App.jsx:9)
    hoveredTokenIndex,  \* useState (App.jsx:10)
    hoveredCharIndex,   \* useState (App.jsx:11)
    activeTokenIndex,   \* useState (App.jsx:12)
    mode,               \* useState: "tokenize" | "decode" (App.jsx:14)
    visualizedText,     \* useState (App.jsx:17)
    tooltip,            \* useState: null or {x, y, content} (App.jsx:133)
    mounted,            \* whether the mount effects (App.jsx:19-29) have run
    timers,             \* pending setTimeout callbacks, oldest first (App.jsx:101)
    inflight,           \* fetch calls awaiting their response (App.jsx:74)
    dispatched,         \* number of fetch calls issued so far; a call's id
    callsSinceChange,   \* fetch calls issued since text, mode or modelId last changed
    tokensFrom          \* id of the call whose response set tokens, 0 if none

vars == <<text, modelId, status, tokens, hoveredTokenIndex, hoveredCharIndex,
          activeTokenIndex, mode, visualizedText, tooltip, mounted, timers,
          inflight, dispatched, callsSinceChange, tokensFrom>>

selectionVars == <<hoveredTokenIndex, hoveredCharIndex, activeTokenIndex, tooltip>>

pipelineVars == <<text, modelId, status, tokens, mode, visualizedText, mounted,
                  timers, inflight, dispatched, callsSinceChange, tokensFrom>>

----------------------------------------------------------------------------
(* Bounds *)

\* Fetch calls issued in one behaviour.
MaxCalls == 2

\* Longest raw input of the ID parsing model.
MaxInputLen == 4

\* Longest token list and largest character offset of the selection model.
MaxTokens == 2
MaxPos == 2

----------------------------------------------------------------------------
(* Values *)

\* null, undefined and findIndex's "not found" (-1): never a valid index
\* or offset.
None == -1

Modes == {"tokenize", "decode"}

\* The default model id and one the user types instead.
DefaultModelId == "Qwen/Qwen3-0.6B"
ModelIds == {DefaultModelId, "gpt2"}

\* The initial raw input, shortened from the source's 45 characters.
InitialText == <<"H", "i">>

\* What the user can make the raw input: empty, plain text, an ID list,
\* text that holds no ID ("a,"), and whitespace only.
Texts == {<<>>, InitialText, <<"7">>, <<"a", ",">>, <<" ">>}

NullStatus == [status |-> "null", message |-> <<>>]

ModelSetMessage(id, m) == <<"Model set to ", id, " (Mode: ", m, ")">>

ReadyStatus == [status |-> "ready", message |-> <<"Ready">>]

\* err.message of a rejected fetch (the text is the runtime's).
FetchErrorMessage == <<"Failed to fetch">>

\* The tooltip state: null, or {x, y, content} with the token's text or
\* "ID: <id>" as content (the screen position is not modelled).
NoTooltip == [kind |-> "null", id |-> 0, text |-> ""]
TextTooltip(t) == [kind |-> "text", id |-> 0, text |-> t]
IdTooltip(id) == [kind |-> "id", id |-> id, text |-> ""]

\* errorData.detail of a non-2xx response: a message, or "" when absent.
Details == {"", "Model not found"}

----------------------------------------------------------------------------
(* String functions used by processInput *)

Digits == {"0", "1", "2", "3", "4", "5", "6", "7", "8", "9"}

Whitespace == {" "}

DigitValue(c) ==
    CASE c = "0" -> 0 [] c = "1" -> 1 [] c = "2" -> 2 [] c = "3" -> 3
      [] c = "4" -> 4 [] c = "5" -> 5 [] c = "6" -> 6 [] c = "7" -> 7
      [] c = "8" -> 8 [] c = "9" -> 9

\* String.prototype.split(','): the pieces between the commas, in order;
\* n commas give n + 1 pieces, empty ones included.
RECURSIVE SplitFrom(_, _, _)
SplitFrom(s, i, piece) ==
    IF i > Len(s) THEN <<piece>>
    ELSE IF s[i] = "," THEN <<piece>> \o SplitFrom(s, i + 1, <<>>)
    ELSE SplitFrom(s, i + 1, Append(piece, s[i]))

Split(s) == SplitFrom(s, 1, <<>>)

\* KeepsChar of a pattern /[^\d]/g: the minus signs are removed too.
KeepsDigitsOnly(c) == c \in Digits

\* s.replace(/[^\d-]/g, ''): keeps the digits and every '-'.
KeepsChar(c) == c \in Digits \/ c = "-"

Sanitize(s) == SelectSeq(s, KeepsChar)

\* String.prototype.trim().
RECURSIVE TrimLeft(_)
TrimLeft(s) ==
    IF s # <<>> /\ Head(s) \in Whitespace THEN TrimLeft(Tail(s)) ELSE s

RECURSIVE TrimRight(_)
TrimRight(s) ==
    IF s # <<>> /\ s[Len(s)] \in Whitespace
    THEN TrimRight(SubSeq(s, 1, Len(s) - 1))
    ELSE s

Trim(s) == TrimRight(TrimLeft(s))

\* Value of a string of digits.
RECURSIVE DecimalValue(_)
DecimalValue(s) ==
    IF s = <<>> THEN 0
    ELSE 10 * DecimalValue(SubSeq(s, 1, Len(s) - 1)) + DigitValue(s[Len(s)])

AllDigits(s) == \A i \in 1..Len(s) : s[i] \in Digits

\* Number(s) for a non-empty s of digits and '-': an optional single
\* leading '-' followed by at least one digit is a number, all else is NaN.
IsNaN(s) ==
    ~ \/ (s # <<>> /\ AllDigits(s))
      \/ (Len(s) >= 2 /\ s[1] = "-" /\ AllDigits(Tail(s)))

Number(s) ==
    IF s[1] = "-" THEN 0 - DecimalValue(Tail(s)) ELSE DecimalValue(s)

MapSanitizeTrim(pieces) == [i \in 1..Len(pieces) |-> Trim(Sanitize(pieces[i]))]

NonEmpty(s) == Len(s) > 0

NotNaN(s) == ~IsNaN(s)

\* The ID list processInput builds from the raw input in decode mode.
ParseIds(inputVal) ==
    LET kept == SelectSeq(SelectSeq(MapSanitizeTrim(Split(inputVal)), NonEmpty), NotNaN)
    IN  [i \in 1..Len(kept) |-> Number(kept[i])]

----------------------------------------------------------------------------
(* Tokens and the external service *)

Token(id, t, s, e) == [id |-> id, text |-> t, start |-> s, end |-> e]

\* Token lists the service answers with in the request pipeline's model.
OneToken == <<Token(1, "H", 0, 1)>>
TwoTokens == <<Token(1, "H", 0, 1), Token(2, "i", 1, 2)>>

\* The JSON body of a 200 response: {tokens} from /api/tokenize (its text
\* is not read), {text, tokens} from /api/decode.
ResponseData(url) ==
    IF url = "tokenize"
    THEN {[tokens |-> OneToken, text |-> <<>>], [tokens |-> TwoTokens, text |-> <<>>]}
    ELSE {[tokens |-> OneToken, text |-> <<"H">>],
          [tokens |-> TwoTokens, text |-> <<"H", "i">>]}

\* The request processInput sends: url and JSON body, with the id of the call.
Request(id, inputVal, mId, m) ==
    [id |-> id,
     url |-> m,
     text |-> IF m = "decode" THEN <<>> ELSE inputVal,
     ids |-> IF m = "decode" THEN ParseIds(inputVal) ELSE <<>>,
     model_id |-> mId]

----------------------------------------------------------------------------
(* Render and effects *)

\* Effect "Sync visualized text with input in tokenize mode", deps
\* [text, mode]: v1 is visualizedText as the handler left it.
SyncVisualizedText(t1, m1, v1) ==
    IF (t1 # text \/ m1 # mode) /\ m1 = "tokenize" THEN t1 ELSE v1

\* ClearTimeout with the cleanup forgotten: the old timer stays pending.
ClearTimeoutForgotten(ts) == ts

\* clearTimeout(timer) of the effect's cleanup: drops the timer the
\* previous run of the effect armed, if it is still pending.
ClearTimeout(ts) == IF ts = <<>> THEN ts ELSE SubSeq(ts, 1, Len(ts) - 1)

\* What the armed callback closes over: text, and processInput's modelId
\* and mode.
Closure(t1, id1, m1) == [text |-> t1, modelId |-> id1, mode |-> m1]

\* DebounceTrigger whose effect returns no cleanup: a timer armed by an
\* earlier run stays pending beside the new one.
DebounceTriggerWithoutCleanup(ts, t1, m1, id1, st1) ==
    IF <<t1, m1, id1, st1.status>> # <<text, mode, modelId, status.status>>
    THEN IF st1.status \in {"ready", "progress", "error"}
         THEN Append(ts, Closure(t1, id1, m1))
         ELSE ts
    ELSE ts

\* Effect "Trigger processing with debouncing", deps
\* [text, mode, processInput, status?.status]; processInput changes with
\* [modelId, mode].  ts is the timer queue as the handler left it.
DebounceTrigger(ts, t1, m1, id1, st1) ==
    IF <<t1, m1, id1, st1.status>> # <<text, mode, modelId, status.status>>
    THEN IF st1.status \in {"ready", "progress", "error"}
         THEN Append(ClearTimeout(ts), Closure(t1, id1, m1))
         ELSE ClearTimeout(ts)
    ELSE ts

\* The state React commits after a handler has set text, mode, modelId,
\* status, tokens and visualizedText to t1 .. v1: one render, then the
\* effects whose deps changed.
Commit(t1, m1, id1, st1, tk1, v1, ts) ==
    /\ text' = t1
    /\ mode' = m1
    /\ modelId' = id1
    /\ status' = st1
    /\ tokens' = tk1
    /\ visualizedText' = SyncVisualizedText(t1, m1, v1)
    /\ timers' = DebounceTrigger(ts, t1, m1, id1, st1)

----------------------------------------------------------------------------
(* Initial state and mount *)

Init ==
    /\ text = InitialText
    /\ modelId = DefaultModelId
    /\ status = NullStatus
    /\ tokens = <<>>
    /\ hoveredTokenIndex = None
    /\ hoveredCharIndex = None
    /\ activeTokenIndex = None
    /\ mode = "tokenize"
    /\ visualizedText = <<>>
    /\ tooltip = NoTooltip
    /\ mounted = FALSE
    /\ timers = <<>>
    /\ inflight = {}
    /\ dispatched = 0
    /\ callsSinceChange = 0
    /\ tokensFrom = 0

\* loadModel(id): sets the status; the mode is the render's.
loadModel(id) == [status |-> "ready", message |-> ModelSetMessage(id, mode)]

\* First commit: the mount effects run in order (loadModel, sync,
\* debounce with status still null), then the render for the new status
\* runs the debounce effect again.
Mount ==
    /\ ~mounted
    /\ mounted' = TRUE
    /\ status' = loadModel(modelId)
    /\ visualizedText' = IF mode = "tokenize" THEN text ELSE visualizedText
    /\ timers' = IF status'.status \in {"ready", "progress", "error"}
                 THEN <<Closure(text, modelId, mode)>>
                 ELSE <<>>
    /\ UNCHANGED <<text, modelId, tokens, mode, inflight, dispatched,
                   callsSinceChange, tokensFrom, selectionVars>>

----------------------------------------------------------------------------
(* User input *)

\* textarea onChange.
SetText(t) ==
    /\ mounted
    /\ t # text
    /\ Commit(t, mode, modelId, status, tokens, visualizedText, timers)
    /\ callsSinceChange' = 0
    /\ UNCHANGED <<mounted, inflight, dispatched, tokensFrom, selectionVars>>

\* model id input onChange.
SetModelId(id) ==
    /\ mounted
    /\ id # modelId
    /\ Commit(text, mode, id, status, tokens, visualizedText, timers)
    /\ callsSinceChange' = 0
    /\ UNCHANGED <<mounted, inflight, dispatched, tokensFrom, selectionVars>>

\* ModeChange without setVisualizedText(''): the old text stays on screen.
ModeChangeKeepsVisualized(newMode) ==
    /\ mounted
    /\ newMode # mode
    /\ Commit(<<>>, newMode, modelId,
              [status |-> "ready", message |-> ModelSetMessage(modelId, newMode)],
              <<>>, visualizedText, timers)
    /\ callsSinceChange' = 0
    /\ tokensFrom' = 0
    /\ UNCHANGED <<mounted, inflight, dispatched, selectionVars>>

\* mode select onChange.
ModeChange(newMode) ==
    /\ mounted
    /\ newMode # mode
    /\ Commit(<<>>, newMode, modelId,
              [status |-> "ready", message |-> ModelSetMessage(modelId, newMode)],
              <<>>, <<>>, timers)
    /\ callsSinceChange' = 0
    /\ tokensFrom' = 0
    /\ UNCHANGED <<mounted, inflight, dispatched, selectionVars>>

\* "Load Model" button onClick; the click then bubbles to the container's
\* onClick (handleContainerClick).
LoadModelClick ==
    /\ mounted
    /\ Commit(text, mode, modelId, loadModel(modelId), tokens, visualizedText, timers)
    /\ activeTokenIndex' = None
    /\ UNCHANGED <<mounted, inflight, dispatched, callsSinceChange, tokensFrom,
                   hoveredTokenIndex, hoveredCharIndex, tooltip>>

----------------------------------------------------------------------------
(* processInput: the debounced callback and the completion of its fetch *)

\* EmptyInputStatus that resets the status whatever it was.
EmptyInputStatusAlwaysReady(prev) == ReadyStatus

\* setStatus(prev => ...) of the empty-input branch.
EmptyInputStatus(prev) ==
    IF prev.status \in {"null", "progress", "error"} THEN ReadyStatus ELSE prev

\* DispatchStatus with the progress update switched on.
DispatchStatusProgress(prev) == [status |-> "progress", message |-> <<"Processing...">>]

\* The status processInput leaves when it starts a call: the progress
\* update is commented out, so it is the status it found.
DispatchStatus(prev) == prev

\* NoUsableIds with the early return forgotten.
NoUsableIdsIgnored(inputVal, m) == FALSE

\* NoUsableIds without the inputVal.trim() test: blank input returns too.
NoUsableIdsAnyBlank(inputVal, m) == m = "decode" /\ Len(ParseIds(inputVal)) = 0

\* ids.length === 0 && inputVal.trim(): decode input that holds no ID.
NoUsableIds(inputVal, m) ==
    m = "decode" /\ Len(ParseIds(inputVal)) = 0 /\ Trim(inputVal) # <<>>

\* processInput(inputVal) up to its await, called by a timer whose closure
\* holds modelId mId and mode m; ts are the timers still pending.
processInput(inputVal, mId, m, ts) ==
    IF inputVal = <<>>
    THEN /\ Commit(text, mode, modelId, EmptyInputStatus(status), <<>>, <<>>, ts)
         /\ tokensFrom' = 0
         /\ UNCHANGED <<inflight, dispatched, callsSinceChange>>
    ELSE IF NoUsableIds(inputVal, m)
    THEN /\ Commit(text, mode, modelId, status, tokens, visualizedText, ts)
         /\ UNCHANGED <<inflight, dispatched, callsSinceChange, tokensFrom>>
    ELSE /\ dispatched < MaxCalls
         /\ dispatched' = dispatched + 1
         /\ callsSinceChange' = callsSinceChange + 1
         /\ inflight' = inflight \cup {Request(dispatched + 1, inputVal, mId, m)}
         /\ Commit(text, mode, modelId, DispatchStatus(status), tokens,
                   visualizedText, ts)
         /\ UNCHANGED tokensFrom

\* The oldest pending timer fires: () => processInput(text).
TimerFire ==
    /\ timers # <<>>
    /\ processInput(Head(timers).text, Head(timers).modelId, Head(timers).mode,
                    Tail(timers))
    /\ UNCHANGED <<mounted, selectionVars>>

\* ErrorMessage without the fallback: an absent detail gives an empty message.
ErrorMessageNoFallback(detail) == <<detail>>

\* errorData.detail || 'Failed to process'.
ErrorMessage(detail) == IF detail # "" THEN <<detail>> ELSE <<"Failed to process">>

\* catch (err): setStatus({status: 'error', message: err.message}).
Catch(message) ==
    /\ Commit(text, mode, modelId, [status |-> "error", message |-> message],
              tokens, visualizedText, timers)
    /\ UNCHANGED tokensFrom

\* The call's mode is the one processInput closed over: the url it chose.
\* A 200 response: setTokens(data.tokens), and in decode mode
\* setVisualizedText(data.text).
ApplyResponse(r, data) ==
    /\ Commit(text, mode, modelId, status, data.tokens,
              IF r.url = "decode" THEN data.text ELSE visualizedText, timers)
    /\ tokensFrom' = r.id

ResponseOk(r, data) ==
    /\ r \in inflight
    /\ inflight' = inflight \ {r}
    /\ ApplyResponse(r, data)
    /\ UNCHANGED <<mounted, dispatched, callsSinceChange, selectionVars>>

\* A non-2xx response carrying {detail}.
ResponseNotOk(r, detail) ==
    /\ r \in inflight
    /\ inflight' = inflight \ {r}
    /\ Catch(ErrorMessage(detail))
    /\ UNCHANGED <<mounted, dispatched, callsSinceChange, selectionVars>>

\* fetch rejects: no response at all.
FetchRejects(r) ==
    /\ r \in inflight
    /\ inflight' = inflight \ {r}
    /\ Catch(FetchErrorMessage)
    /\ UNCHANGED <<mounted, dispatched, callsSinceChange, selectionVars>>

----------------------------------------------------------------------------
(* The request pipeline: user input, the debounce timer and the network.  *)
(* Its handlers never read the selection state, which stays as it is.     *)

Next ==
    \/ Mount
    \/ \E t \in Texts : SetText(t)
    \/ \E id \in ModelIds : SetModelId(id)
    \/ \E m \in Modes : ModeChange(m)
    \/ LoadModelClick
    \/ TimerFire
    \/ \E r \in inflight : \E data \in ResponseData(r.url) : ResponseOk(r, data)
    \/ \E r \in inflight : \E detail \in Details : ResponseNotOk(r, detail)
    \/ \E r \in inflight : FetchRejects(r)

Spec == Init /\ [][Next]_vars

----------------------------------------------------------------------------
(* Hover and click handlers *)

\* Covers with a closed end: index <= t.end.
CoversClosedEnd(t, index) ==
    /\ t.start # None
    /\ t.end # None
    /\ t.start <= index
    /\ index <= t.end

\* t.start <= index && index < t.end; a comparison with undefined is false.
Covers(t, index) ==
    /\ t.start # None
    /\ t.end # None
    /\ t.start <= index
    /\ index < t.end

\* tokens.findIndex(t => t.start <= index && index < t.end), 0-based,
\* scanning from list position i (1-based).
RECURSIVE FindIndexFrom(_, _, _)
FindIndexFrom(tks, index, i) ==
    IF i > Len(tks) THEN None
    ELSE IF Covers(tks[i], index) THEN i - 1
    ELSE FindIndexFrom(tks, index, i + 1)

findIndex(tks, index) == FindIndexFrom(tks, index, 1)

\* handleTooltipEnter(e, content): nothing when content is falsy.
handleTooltipEnter(content) == IF content.kind = "null" \/ (content.kind = "text" /\ content.text = "")
                               THEN tooltip ELSE content

\* The token chips rendered: indexes 0 .. tokens.length - 1.
ChipIndexes == 0..(Len(tokens) - 1)

\* The character spans rendered: indexes 0 .. visualizedText.length - 1.
CharIndexes == 0..(Len(visualizedText) - 1)

\* onTokenEnter(e, index, token.text).
onTokenEnter(index) ==
    /\ mounted
    /\ index \in ChipIndexes
    /\ hoveredTokenIndex' = index
    /\ tooltip' = handleTooltipEnter(TextTooltip(tokens[index + 1].text))
    /\ UNCHANGED <<hoveredCharIndex, activeTokenIndex, pipelineVars>>

\* onTokenLeave().
onTokenLeave ==
    /\ mounted
    /\ hoveredTokenIndex' = None
    /\ tooltip' = NoTooltip
    /\ UNCHANGED <<hoveredCharIndex, activeTokenIndex, pipelineVars>>

\* hoveredTokenIndex after handleCharEnter(index).
CharEnterHovered(tks, hovered, index) ==
    LET tokenIndex == findIndex(tks, index) IN
    IF tokenIndex # None THEN tokenIndex ELSE hovered

\* onCharEnter(e, index, token), token being tokens.find(...) of the render.
onCharEnter(index) ==
    LET tokenIndex == findIndex(tokens, index) IN
    /\ mounted
    /\ index \in CharIndexes
    /\ hoveredCharIndex' = index
    /\ hoveredTokenIndex' = CharEnterHovered(tokens, hoveredTokenIndex, index)
    /\ tooltip' = handleTooltipEnter(IF tokenIndex # None
                                     THEN IdTooltip(tokens[tokenIndex + 1].id)
                                     ELSE NoTooltip)
    /\ UNCHANGED <<activeTokenIndex, pipelineVars>>

\* onCharLeave that leaves the hovered token in place.
onCharLeaveKeepsToken ==
    /\ mounted
    /\ hoveredCharIndex' = None
    /\ tooltip' = NoTooltip
    /\ UNCHANGED <<hoveredTokenIndex, activeTokenIndex, pipelineVars>>

\* onCharLeave().
onCharLeave ==
    /\ mounted
    /\ hoveredCharIndex' = None
    /\ hoveredTokenIndex' = None
    /\ tooltip' = NoTooltip
    /\ UNCHANGED <<activeTokenIndex, pipelineVars>>

\* TokenClickResult whose deselect leaves the hover in place.
TokenClickKeepsHover(active, hovered, index) ==
    IF active = index
    THEN [active |-> None, hovered |-> hovered]
    ELSE [active |-> index, hovered |-> hovered]

\* The selection onTokenClick(e, index) leaves, from activeTokenIndex
\* active and hoveredTokenIndex hovered.
TokenClickResult(active, hovered, index) ==
    IF active = index
    THEN [active |-> None, hovered |-> None]
    ELSE [active |-> index, hovered |-> hovered]

\* A click on a chip or a character that goes on to the container.
ClickReachesContainerUnstopped == TRUE

\* Whether a click on a chip or a character goes on to the container's
\* onClick: e.stopPropagation() keeps it from it.
ClickReachesContainer == FALSE

\* activeTokenIndex once the click has gone where it propagates to.
AfterPropagation(active) == IF ClickReachesContainer THEN None ELSE active

\* onTokenClick(e, index); the scroll it starts is no state of the component.
onTokenClick(index) ==
    /\ mounted
    /\ index \in ChipIndexes
    /\ activeTokenIndex' =
           AfterPropagation(TokenClickResult(activeTokenIndex, hoveredTokenIndex, index).active)
    /\ hoveredTokenIndex' = TokenClickResult(activeTokenIndex, hoveredTokenIndex, index).hovered
    /\ UNCHANGED <<hoveredCharIndex, tooltip, pipelineVars>>

\* CharClickResult that selects the resolved token without toggling.
CharClickAlwaysSelects(tks, active, hovered, index) ==
    LET tokenIndex == findIndex(tks, index) IN
    IF tokenIndex # None
    THEN [active |-> tokenIndex, hovered |-> hovered]
    ELSE [active |-> None, hovered |-> hovered]

\* The selection onCharClick(e, index, token) leaves.
CharClickResult(tks, active, hovered, index) ==
    LET tokenIndex == findIndex(tks, index) IN
    IF tokenIndex # None
    THEN IF active = tokenIndex
         THEN [active |-> None, hovered |-> None]
         ELSE [active |-> tokenIndex, hovered |-> hovered]
    ELSE [active |-> None, hovered |-> hovered]

\* onCharClick(e, index, token).
onCharClick(index) ==
    /\ mounted
    /\ index \in CharIndexes
    /\ activeTokenIndex' =
           AfterPropagation(CharClickResult(tokens, activeTokenIndex, hoveredTokenIndex, index).active)
    /\ hoveredTokenIndex' = CharClickResult(tokens, activeTokenIndex, hoveredTokenIndex, index).hovered
    /\ UNCHANGED <<hoveredCharIndex, tooltip, pipelineVars>>

\* handleContainerClick(): a click outside the chips and the characters.
handleContainerClick ==
    /\ mounted
    /\ activeTokenIndex' = None
    /\ UNCHANGED <<hoveredTokenIndex, hoveredCharIndex, tooltip, pipelineVars>>

----------------------------------------------------------------------------
(* The selection state machine over any token list.  It starts where a    *)
(* decode response has just been applied: the service chooses the token   *)
(* list, so every list of the data model is one the component can hold.   *)

\* Spans of the data model: half-open and well formed, or absent.
Spans == {sp \in (0..MaxPos) \X (0..MaxPos) : sp[1] < sp[2]} \cup {<<None, None>>}

TokenLists ==
    UNION {[1..n -> {Token(7, "t", sp[1], sp[2]) : sp \in Spans}] : n \in 0..MaxTokens}

InitSelection ==
    /\ text = <<"7">>
    /\ modelId = DefaultModelId
    /\ status = [status |-> "ready", message |-> ModelSetMessage(DefaultModelId, "decode")]
    /\ tokens \in TokenLists
    /\ hoveredTokenIndex = None
    /\ hoveredCharIndex = None
    /\ activeTokenIndex = None
    /\ mode = "decode"
    /\ visualizedText = [i \in 1..MaxPos |-> "x"]
    /\ tooltip = NoTooltip
    /\ mounted = TRUE
    /\ timers = <<>>
    /\ inflight = {}
    /\ dispatched = 1
    /\ callsSinceChange = 1
    /\ tokensFrom = 1

NextSelection ==
    \/ \E i \in ChipIndexes : onTokenEnter(i)
    \/ onTokenLeave
    \/ \E c \in CharIndexes : onCharEnter(c)
    \/ onCharLeave
    \/ \E i \in ChipIndexes : onTokenClick(i)
    \/ \E c \in CharIndexes : onCharClick(c)
    \/ handleContainerClick

SpecSelection == InitSelection /\ [][NextSelection]_vars

----------------------------------------------------------------------------
(* Properties of the request pipeline (checked under Spec) *)

\* C1: stale responses never overwrite fresher state: once the token list
\* holds the result of a call B, the response of a call A dispatched before
\* B is never applied over it.
StaleNeverOverwrites ==
    [][(tokensFrom # 0 /\ tokensFrom' # 0) => tokensFrom' >= tokensFrom]_vars

\* A change of the raw input, the mode or the model id.
InputChanged == text' # text \/ mode' # mode \/ modelId' # modelId

\* C2: debounce coalescing: at most one timer is pending and it holds the
\* current text, mode and model id; every change of one of the three
\* replaces the pending timer by one for the new values without calling
\* the service; a call is dispatched only by the firing of that one timer,
\* which is then spent, and the call carries the current text, mode and
\* model id.
DebounceCoalesces ==
    [][/\ Len(timers) <= 1
       /\ timers # <<>> => timers = <<Closure(text, modelId, mode)>>
       /\ (mounted /\ InputChanged) =>
             /\ timers' = <<Closure(text', modelId', mode')>>
             /\ dispatched' = dispatched
             /\ inflight' = inflight
       /\ dispatched' # dispatched =>
             /\ timers = <<Closure(text, modelId, mode)>>
             /\ timers' = <<>>
             /\ dispatched' = dispatched + 1
             /\ inflight' = inflight \cup {Request(dispatched', text, modelId, mode)}
             /\ ~InputChanged]_vars

\* C2 witness: the text, the mode and the model id have all been changed,
\* no call has been dispatched, and one timer for the current values is
\* pending.
DebounceCoalescesWitness ==
    /\ text = <<"7">>
    /\ mode = "decode"
    /\ modelId = "gpt2"
    /\ dispatched = 0
    /\ timers = <<Closure(text, modelId, mode)>>

\* C3: exactly one external call per settled input: between two changes of
\* (mode, rawInput, modelId) no more than one call is dispatched, whatever
\* the outcome of the call.
OneCallPerSettledInput == callsSinceChange <= 1

\* C4: in tokenize mode the visualized text is the raw input text.
TokenizeMirrorsInput ==
    (mounted /\ mode = "tokenize") => visualizedText = text

\* C5: mode switch reset: a change of the mode leaves the token list, the
\* visualized text and the raw input empty and the status ready, with the
\* message naming the current model id and the new mode.
ModeSwitchResets ==
    [][mode' # mode =>
          /\ tokens' = <<>>
          /\ visualizedText' = <<>>
          /\ text' = <<>>
          /\ status' = [status |-> "ready",
                        message |-> ModelSetMessage(modelId', mode')]]_vars

\* C5 witness: after calls under another model id the mode has been
\* switched to decode and everything is reset.
ModeSwitchResetsWitness ==
    /\ mode = "decode"
    /\ modelId = "gpt2"
    /\ dispatched > 0
    /\ tokens = <<>>
    /\ visualizedText = <<>>
    /\ text = <<>>
    /\ status = [status |-> "ready", message |-> ModelSetMessage("gpt2", "decode")]

\* What the handling of a failed call must leave: the error status with
\* the given message, the token list and the visualized text as they were.
FailureLeaves(message) ==
    /\ status' = [status |-> "error", message |-> message]
    /\ tokens' = tokens
    /\ visualizedText' = visualizedText

\* C6: failure handling: a non-success response sets the error status with
\* the server's detail if there is one and the generic message if not, a
\* transport failure sets it with the failure's message, and neither
\* changes the token list or the visualized text.
FailureSetsErrorOnly ==
    [][\A r \in inflight :
          /\ \A detail \in Details :
                ResponseNotOk(r, detail) =>
                    FailureLeaves(IF detail = "" THEN <<"Failed to process">>
                                  ELSE <<detail>>)
          /\ FetchRejects(r) => FailureLeaves(FetchErrorMessage)]_vars

\* C6 witness: a call has failed without a detail after an earlier call
\* succeeded; the tokens of the earlier call are still shown.
FailureSetsErrorOnlyWitness ==
    /\ status = [status |-> "error", message |-> <<"Failed to process">>]
    /\ tokens = TwoTokens
    /\ tokensFrom = 1
    /\ dispatched = 2
    /\ inflight = {}

\* C7: malformed decode input is a silent no-op: when the timer fires in
\* decode mode for an input that is not blank and holds no ID, no call is
\* dispatched and tokens, visualized text and status stay as they are.
MalformedDecodeIsNoOp ==
    [][(/\ timers # <<>>
        /\ Head(timers).mode = "decode"
        /\ Trim(Head(timers).text) # <<>>
        /\ ParseIds(Head(timers).text) = <<>>
        /\ TimerFire) =>
          /\ dispatched' = dispatched
          /\ inflight' = inflight
          /\ tokens' = tokens
          /\ visualizedText' = visualizedText
          /\ status' = status]_vars

\* C7 witness: the timer has fired for "a," in decode mode; the result of
\* the earlier decode call is still shown and nothing is in flight.
MalformedDecodeIsNoOpWitness ==
    /\ mode = "decode"
    /\ text = <<"a", ",">>
    /\ timers = <<>>
    /\ inflight = {}
    /\ dispatched = 1
    /\ tokens = TwoTokens
    /\ visualizedText = <<"H", "i">>

\* C8: empty input: when the timer fires for an empty input, no call is
\* dispatched, tokens and visualized text become empty, and the status
\* becomes {ready, "Ready"} if it was progress or error and stays as it
\* is, message included, otherwise.
EmptyInputClears ==
    [][(/\ timers # <<>>
        /\ Head(timers).text = <<>>
        /\ TimerFire) =>
          /\ dispatched' = dispatched
          /\ inflight' = inflight
          /\ tokens' = <<>>
          /\ visualizedText' = <<>>
          /\ status' = IF status.status \in {"progress", "error"}
                       THEN ReadyStatus
                       ELSE status]_vars

\* C8 witness: the timer has fired for an empty input while the status was
\* error: the status is {ready, "Ready"} and everything is cleared.
EmptyInputClearsWitness ==
    /\ status = ReadyStatus
    /\ text = <<>>
    /\ tokens = <<>>
    /\ visualizedText = <<>>
    /\ dispatched > 0

----------------------------------------------------------------------------
(* Properties of the selection handlers (checked under SpecSelection) *)

\* C9: toggle law: from a state where the token of a chip, or of a
\* character that resolves to a token, is not active, a click on the
\* element makes that token the active one, and a second click on the same
\* element makes activeTokenIndex and hoveredTokenIndex none.
ToggleLaw ==
    /\ \A i \in ChipIndexes :
          activeTokenIndex # i =>
              LET first == TokenClickResult(activeTokenIndex, hoveredTokenIndex, i)
                  second == TokenClickResult(first.active, first.hovered, i)
              IN  /\ first.active = i
                  /\ second.active = None
                  /\ second.hovered = None
    /\ \A c \in CharIndexes :
          (findIndex(tokens, c) # None /\ activeTokenIndex # findIndex(tokens, c)) =>
              LET first == CharClickResult(tokens, activeTokenIndex, hoveredTokenIndex, c)
                  second == CharClickResult(tokens, first.active, first.hovered, c)
              IN  /\ first.active = findIndex(tokens, c)
                  /\ second.active = None
                  /\ second.hovered = None

\* C9 witness: a token is hovered and has been clicked, so the next click
\* on it has a selection and a hover to clear.
ToggleLawWitness ==
    /\ activeTokenIndex = 1
    /\ hoveredTokenIndex = 1
    /\ findIndex(tokens, 1) = 1

\* A token that has both ends of a span, and one whose span holds c.
HasSpan(t) == t.start # None /\ t.end # None

InSpan(t, c) == HasSpan(t) /\ c \in t.start..(t.end - 1)

\* The 0-based index of the first token in list order whose span holds c.
FirstCovering(tks, c) ==
    IF \E i \in 1..Len(tks) : InSpan(tks[i], c)
    THEN (CHOOSE i \in 1..Len(tks) :
              InSpan(tks[i], c) /\ \A j \in 1..(i - 1) : ~InSpan(tks[j], c)) - 1
    ELSE None

\* No two tokens' spans share a character.
NonOverlapping(tks) ==
    \A i, j \in 1..Len(tks) :
        (i # j /\ HasSpan(tks[i]) /\ HasSpan(tks[j])) =>
            (tks[i].end <= tks[j].start \/ tks[j].end <= tks[i].start)

\* The scenario of the specification: spans [0,5), [5,11), [11,12).
ScenarioTokens ==
    <<Token(1, "Hello", 0, 5), Token(2, " world", 5, 11), Token(3, ".", 11, 12)>>

\* C10: alignment resolution: for every character index c the lookup done
\* on character hover and character click gives the first token in list
\* order with start <= c < end, tokens without a span being skipped, and
\* none when no token covers c; when the spans do not overlap it is the
\* only covering token; in the scenario, c = 7 resolves to token index 1.
ResolvesToFirstCovering ==
    /\ \A c \in 0..MaxPos :
          /\ findIndex(tokens, c) = FirstCovering(tokens, c)
          /\ CharEnterHovered(tokens, None, c) = FirstCovering(tokens, c)
          /\ CharClickResult(tokens, None, None, c).active = FirstCovering(tokens, c)
          /\ NonOverlapping(tokens) =>
                \A i \in 1..Len(tokens) :
                    InSpan(tokens[i], c) => findIndex(tokens, c) = i - 1
    /\ findIndex(ScenarioTokens, 7) = 1

\* C10 witness: character 1 has been hovered and clicked and resolved to
\* the second token, the first token having no span.
ResolvesToFirstCoveringWitness ==
    /\ Len(tokens) = 2
    /\ ~HasSpan(tokens[1])
    /\ hoveredCharIndex = 1
    /\ hoveredTokenIndex = 1
    /\ activeTokenIndex = 1

\* C14: hover is transient: no pointer-enter or pointer-leave event changes
\* activeTokenIndex; after a pointer-leave from a token chip
\* hoveredTokenIndex is none and the tooltip is cleared; after a
\* pointer-leave from a character hoveredCharIndex and hoveredTokenIndex
\* are none and the tooltip is cleared.
HoverIsTransient ==
    [][/\ \A i \in ChipIndexes :
              onTokenEnter(i) => activeTokenIndex' = activeTokenIndex
       /\ \A c \in CharIndexes :
              onCharEnter(c) => activeTokenIndex' = activeTokenIndex
       /\ onTokenLeave =>
              /\ activeTokenIndex' = activeTokenIndex
              /\ hoveredTokenIndex' = None
              /\ tooltip' = NoTooltip
       /\ onCharLeave =>
              /\ activeTokenIndex' = activeTokenIndex
              /\ hoveredCharIndex' = None
              /\ hoveredTokenIndex' = None
              /\ tooltip' = NoTooltip]_vars

\* C14 witness: the first token is pinned while the pointer is over a
\* character of the second, whose tooltip is shown: the pointer has
\* entered, and its leaving has a hover and a tooltip to clear.
HoverIsTransientWitness ==
    /\ activeTokenIndex = 0
    /\ hoveredCharIndex = 1
    /\ hoveredTokenIndex = 1
    /\ tooltip = IdTooltip(7)

\* C15: a character click mirrors a chip click: when character c resolves
\* to token i, clicking c leaves the activeTokenIndex and hoveredTokenIndex
\* that clicking chip i leaves; when c resolves to no token, clicking it
\* sets activeTokenIndex to none.
CharClickMirrorsChipClick ==
    \A c \in CharIndexes :
        LET i == FirstCovering(tokens, c)
            clicked == CharClickResult(tokens, activeTokenIndex, hoveredTokenIndex, c)
        IN  IF i # None
            THEN clicked = TokenClickResult(activeTokenIndex, hoveredTokenIndex, i)
            ELSE clicked.active = None

\* C15 witness: the second token is active and hovered, character 0
\* resolves to it and character 1 to no token, so a click on character 0
\* deselects as a click on the chip does and a click on character 1
\* clears the selection.
CharClickMirrorsChipClickWitness ==
    /\ activeTokenIndex = 1
    /\ hoveredTokenIndex = 1
    /\ FirstCovering(tokens, 0) = 1
    /\ FirstCovering(tokens, 1) = None

\* C16: background click discipline: a click on the background sets
\* activeTokenIndex to none; a click on a token chip or on a character does
\* not also run the background handler, so a click on a chip i that was not
\* active, or on a character resolving to such a token, leaves
\* activeTokenIndex = i.
BackgroundClickDiscipline ==
    /\ [](/\ \A i \in ChipIndexes :
              activeTokenIndex # i =>
                  AfterPropagation(TokenClickResult(activeTokenIndex,
                                                    hoveredTokenIndex, i).active) = i
          /\ \A c \in CharIndexes :
              (/\ FirstCovering(tokens, c) # None
               /\ activeTokenIndex # FirstCovering(tokens, c)) =>
                  AfterPropagation(CharClickResult(tokens, activeTokenIndex,
                                                   hoveredTokenIndex, c).active)
                      = FirstCovering(tokens, c))
    /\ [][/\ handleContainerClick => activeTokenIndex' = None
           /\ \A i \in ChipIndexes :
                  (onTokenClick(i) /\ activeTokenIndex # i) => activeTokenIndex' = i
           /\ \A c \in CharIndexes :
                  (/\ onCharClick(c)
                   /\ FirstCovering(tokens, c) # None
                   /\ activeTokenIndex # FirstCovering(tokens, c)) =>
                      activeTokenIndex' = FirstCovering(tokens, c)]_vars

\* C16 witness: the first chip has been clicked while nothing is hovered
\* and stays the active one; a background click has something to clear.
BackgroundClickDisciplineWitness ==
    /\ activeTokenIndex = 0
    /\ hoveredTokenIndex = None
    /\ hoveredCharIndex = None
    /\ Len(tokens) = 2

----------------------------------------------------------------------------
(* Decode-mode input over every short string: the component has been      *)
(* switched to decode mode and the user has typed the raw input, so the   *)
(* debounce timer for it is pending.  The timer and the network then run. *)

\* Characters of the raw input: digits, a minus sign, the separator, a
\* blank and a character that is none of these.
InputChars == {"1", "2", "-", ",", " ", "}"}

RawInputs == UNION {[1..n -> InputChars] : n \in 0..MaxInputLen}

InitDecodeInput ==
    /\ text \in RawInputs
    /\ modelId = DefaultModelId
    /\ status = [status |-> "ready", message |-> ModelSetMessage(DefaultModelId, "decode")]
    /\ tokens = <<>>
    /\ hoveredTokenIndex = None
    /\ hoveredCharIndex = None
    /\ activeTokenIndex = None
    /\ mode = "decode"
    /\ visualizedText = <<>>
    /\ tooltip = NoTooltip
    /\ mounted = TRUE
    /\ timers = <<Closure(text, DefaultModelId, "decode")>>
    /\ inflight = {}
    /\ dispatched = 0
    /\ callsSinceChange = 0
    /\ tokensFrom = 0

NextDecodeInput ==
    \/ TimerFire
    \/ \E r \in inflight : \E data \in ResponseData(r.url) : ResponseOk(r, data)
    \/ \E r \in inflight : \E detail \in Details : ResponseNotOk(r, detail)
    \/ \E r \in inflight : FetchRejects(r)

SpecDecodeInput == InitDecodeInput /\ [][NextDecodeInput]_vars

----------------------------------------------------------------------------
(* Properties of the ID parsing (checked under SpecDecodeInput) *)

\* The pieces of s between its commas, by the positions of the commas.
CommaPositions(s) == {i \in 1..Len(s) : s[i] = ","}

PieceBounds(s, k) ==
    LET commas == CommaPositions(s)
        nth(n) == IF n = 0 THEN 0
                  ELSE IF n > Cardinality(commas) THEN Len(s) + 1
                  ELSE CHOOSE i \in commas : Cardinality({j \in commas : j < i}) = n - 1
    IN  <<nth(k - 1) + 1, nth(k) - 1>>

PiecesOf(s) ==
    [k \in 1..(Cardinality(CommaPositions(s)) + 1) |->
        SubSeq(s, PieceBounds(s, k)[1], PieceBounds(s, k)[2])]

RECURSIVE PowerOfTen(_)
PowerOfTen(n) == IF n = 0 THEN 1 ELSE 10 * PowerOfTen(n - 1)

RECURSIVE SumDigits(_, _)
SumDigits(ds, i) ==
    IF i > Len(ds) THEN 0
    ELSE DigitValue(ds[i]) * PowerOfTen(Len(ds) - i) + SumDigits(ds, i + 1)

IsDigit(c) == c \in Digits

IsDigitOrMinus(c) == c \in Digits \/ c = "-"

\* A piece as the claim strips it: its digits, after a minus sign when the
\* first of its digits and minus signs is a minus sign.
LeadingMinusStripped(piece) ==
    LET kept == SelectSeq(piece, IsDigitOrMinus)
        digits == SelectSeq(piece, IsDigit)
    IN  IF kept # <<>> /\ kept[1] = "-" THEN <<"-">> \o digits ELSE digits

\* A piece as the code strips it: its digits and all its minus signs.
EveryMinusKept(piece) == SelectSeq(piece, IsDigitOrMinus)

\* A stripped piece that is an integer: digits, after at most one minus sign.
IsInteger(p) ==
    /\ SelectSeq(p, IsDigit) # <<>>
    /\ \A i \in 2..Len(p) : p[i] # "-"

IntegerOf(p) ==
    IF p[1] = "-" THEN 0 - SumDigits(SelectSeq(p, IsDigit), 1)
    ELSE SumDigits(p, 1)

\* The integers of the stripped pieces that are integers, in input order.
IntegersOf(stripped) ==
    LET numeric == SelectSeq(stripped, IsInteger)
    IN  [i \in 1..Len(numeric) |-> IntegerOf(numeric[i])]

IdsAsClaimed(s) ==
    IntegersOf([k \in 1..Len(PiecesOf(s)) |-> LeadingMinusStripped(PiecesOf(s)[k])])

IdsWithEveryMinus(s) ==
    IntegersOf([k \in 1..Len(PiecesOf(s)) |-> EveryMinusKept(PiecesOf(s)[k])])

\* "101, 7592, 102}"
ScenarioInput ==
    <<"1", "0", "1", ",", " ", "7", "5", "9", "2", ",", " ", "1", "0", "2", "}">>

\* C11 as claimed: the ID list of every Decode call is the raw input split
\* on ',', each piece stripped of every character that is not a digit or a
\* leading minus sign, empty and non-numeric pieces dropped, the rest
\* converted to integers in input order.
DecodeIdsAsClaimed ==
    \A r \in inflight : r.url = "decode" => r.ids = IdsAsClaimed(text)

\* C11 amended: the ID list processInput builds, and the one every Decode
\* call carries, is the raw input split on ',', each piece stripped of
\* every character that is not a digit or a minus sign (wherever the minus
\* sign stands), empty pieces and pieces that are not an integer dropped
\* (so a piece with a minus sign after a digit, or with two minus signs,
\* is dropped whole), the rest converted to integers in input order;
\* "101, 7592, 102}" gives [101, 7592, 102].
DecodeIdsKeepEveryMinus ==
    /\ ParseIds(text) = IdsWithEveryMinus(text)
    /\ \A r \in inflight : r.url = "decode" => r.ids = IdsWithEveryMinus(text)
    /\ ParseIds(ScenarioInput) = <<101, 7592, 102>>

\* C11 witness: a Decode call for "-1,2" is in flight with the IDs [-1, 2].
DecodeIdsWitness ==
    /\ text = <<"-", "1", ",", "2">>
    /\ \E r \in inflight : r.url = "decode" /\ r.ids = <<-1, 2>>

----------------------------------------------------------------------------
(* The whole session: the request pipeline and the selection handlers     *)
(* together.                                                               *)

NextSession == Next \/ NextSelection

SpecSession == Init /\ [][NextSession]_vars

----------------------------------------------------------------------------
(* Properties of the status (checked under Spec) *)

\* C12: error recovery: from a state with Status = error, a mode change
\* resets Status to ready, a model change resets it to ready, and so does
\* further input: the success of the call made for the changed input.
ErrorRecovers ==
    [][status.status = "error" =>
          /\ mode' # mode => status'.status = "ready"
          /\ modelId' # modelId => status'.status = "ready"
          /\ \A r \in inflight : \A data \in ResponseData(r.url) :
                (/\ inflight = {r}
                 /\ r.id = dispatched
                 /\ callsSinceChange = 1
                 /\ ResponseOk(r, data)) => status'.status = "ready"]_vars

\* Raw input that is not empty and holds only whitespace.
IsBlank(input) == input # <<>> /\ \A i \in 1..Len(input) : input[i] \in Whitespace

\* C20: blank decode input: when the debounced callback runs in decode
\* mode, it dispatches a Decode call with an empty ID list exactly when the
\* settled raw input is non-empty and whitespace only; for empty input it
\* dispatches nothing and clears the tokens and the visualized text; for
\* non-blank input that parses to no ID it dispatches nothing and changes
\* nothing.
BlankDecodeInput ==
    [][(timers # <<>> /\ Head(timers).mode = "decode" /\ TimerFire) =>
          LET input == Head(timers).text IN
          /\ (\E r \in inflight' \ inflight : r.url = "decode" /\ r.ids = <<>>)
                 <=> IsBlank(input)
          /\ IsBlank(input) => inflight' \ inflight =
                 {[id |-> dispatched + 1, url |-> "decode", text |-> <<>>,
                   ids |-> <<>>, model_id |-> Head(timers).modelId]}
          /\ input = <<>> =>
                 /\ inflight' = inflight
                 /\ tokens' = <<>>
                 /\ visualizedText' = <<>>
          /\ (input # <<>> /\ ~IsBlank(input) /\ IdsWithEveryMinus(input) = <<>>) =>
                 /\ inflight' = inflight
                 /\ UNCHANGED <<tokens, visualizedText, status, text, mode, modelId>>]_vars

\* C20 witness: the raw input is two spaces and a Decode call with an
\* empty ID list is in flight for it.
BlankDecodeInputWitness ==
    /\ text = <<" ", " ">>
    /\ mode = "decode"
    /\ \E r \in inflight : r.url = "decode" /\ r.ids = <<>>

\* C17: the progress status is unreachable: Status is unset (before the
\* startup initialisation only), ready or error.
ProgressUnreachable ==
    /\ status.status \in {"null", "ready", "error"}
    /\ status.status = "null" <=> ~mounted

\* C17 witness: a call has been dispatched and is in flight, and Status is
\* still the ready it was.
ProgressUnreachableWitness ==
    /\ inflight # {}
    /\ dispatched = 1
    /\ timers = <<>>
    /\ status = loadModel(DefaultModelId)

\* C18: debounce cycle gating: at most one debounce timer is pending; a
\* timer is armed only while Status is ready, progress or error, never
\* while it is unset; no call is dispatched before Status has been
\* initialised at startup.
DebounceGated ==
    /\ Len(timers) <= 1
    /\ timers # <<>> => status.status \in {"ready", "progress", "error"}
    /\ status = NullStatus => (timers = <<>> /\ dispatched = 0 /\ inflight = {})

\* C18 witness: Status is error, a call is still in flight, and after a
\* change of the input one timer is pending for it.
DebounceGatedWitness ==
    /\ status.status = "error"
    /\ Len(timers) = 1
    /\ inflight # {}
    /\ callsSinceChange = 0

----------------------------------------------------------------------------
(* Properties of the whole session (checked under SpecSession) *)

\* C13: selection index validity: activeTokenIndex and hoveredTokenIndex
\* are each none or an index into the current token list.
SelectionIndexesValid ==
    /\ activeTokenIndex = None \/ activeTokenIndex \in ChipIndexes
    /\ hoveredTokenIndex = None \/ hoveredTokenIndex \in ChipIndexes

----------------------------------------------------------------------------
(* A settled input: the user has just changed the text to a non-empty     *)
(* one, the debounce timer for it is pending, and from here on only the   *)
(* timer and the network act.  Status is ready (after the initial load or *)
(* after empty input) or error (after a failed call), and a call          *)
(* dispatched for the input before may still be in flight.  Calls are     *)
(* numbered from the settling: the earlier call has number 0.              *)

EarlierCall == Request(0, InitialText, DefaultModelId, "tokenize")

SettledStatuses(m) ==
    {[status |-> "ready", message |-> ModelSetMessage(DefaultModelId, m)],
     ReadyStatus,
     [status |-> "error", message |-> ErrorMessage("")]}

InitSettled ==
    /\ text \in Texts \ {<<>>}
    /\ modelId = DefaultModelId
    /\ mode \in Modes
    /\ status \in SettledStatuses(mode)
    /\ tokens = <<>>
    /\ hoveredTokenIndex = None
    /\ hoveredCharIndex = None
    /\ activeTokenIndex = None
    /\ visualizedText = IF mode = "tokenize" THEN text ELSE <<>>
    /\ tooltip = NoTooltip
    /\ mounted = TRUE
    /\ timers = <<Closure(text, modelId, mode)>>
    /\ inflight \in {{}, {EarlierCall}}
    /\ dispatched = 0
    /\ callsSinceChange = 0
    /\ tokensFrom = 0

NextSettled ==
    \/ TimerFire
    \/ \E r \in inflight : \E data \in ResponseData(r.url) : ResponseOk(r, data)
    \/ \E r \in inflight : \E detail \in Details : ResponseNotOk(r, detail)
    \/ \E r \in inflight : FetchRejects(r)

SpecSettled == InitSettled /\ [][NextSettled]_vars

----------------------------------------------------------------------------
(* Properties of a settled input (checked under SpecSettled) *)

\* A call fails: a non-2xx response or a rejected fetch.
CallFails ==
    \/ \E r \in inflight : \E detail \in Details : ResponseNotOk(r, detail)
    \/ \E r \in inflight : FetchRejects(r)

\* The part of C19 that involves no call but the input's own: a failed
\* call that moves Status from ready to error re-arms the timer for the
\* same unchanged (mode, rawInput, modelId), and the call the timer
\* dispatches is for that input; a failure while Status is error leaves it
\* at error and arms nothing; a timer is armed anew only by a failure that
\* moved Status from ready to error; so the settled input causes at most
\* two calls, and after the second Status is error and no timer is pending.
FailureRearmsOnce ==
    /\ [](/\ callsSinceChange <= 2
          /\ callsSinceChange = 2 => (status.status = "error" /\ timers = <<>>))
    /\ [][/\ CallFails =>
                /\ status'.status = "error"
                /\ IF status.status = "ready"
                   THEN timers' = <<Closure(text, modelId, mode)>>
                   ELSE timers' = timers
          /\ status.status = "error" => status'.status = "error"
          /\ (timers = <<>> /\ timers' # <<>>) =>
                (CallFails /\ status.status = "ready")
          /\ dispatched' # dispatched =>
                /\ TimerFire
                /\ inflight' = inflight \cup
                       {Request(dispatched', text, modelId, mode)}
          /\ UNCHANGED <<text, mode, modelId>>]_vars

\* C19: failure re-arms the debounce: with no further user events a failed
\* call that moves Status from ready to error re-arms the timer and a
\* second call for the same unchanged input is dispatched; a second
\* consecutive failure leaves Status at error and does not re-arm; the
\* settled input causes at most two calls, and exactly two only when its
\* first call failed while Status was ready, so that the first call is no
\* longer in flight when the second is dispatched.
SecondCallOnlyAfterFirstFails ==
    /\ FailureRearmsOnce
    /\ [][(callsSinceChange = 1 /\ callsSinceChange' = 2) =>
              \A r \in inflight : r.id # 1]_vars

====
